---- MODULE Spec2Model ----
(***************************************************************************)
(* A model of the Newtral simple RAG notebook (src/simple_rag.ipynb):      *)
(*   - the embedding cache cell that builds `vectorstore`,                 *)
(*   - IR.search, the dot-product top-k retrieval,                         *)
(*   - ChatQA (__call__, follow_up_query, reset),                          *)
(*   - split_text, which the notebook imports from `utils`; that module is *)
(*     not part of the sources at hand, so the splitter is modelled from   *)
(*     the algorithm of spec.md section 4.1.                               *)
(*                                                                         *)
(* Texts handed to the embedding provider are text ids 1..MaxText; the     *)
(* provider is a fixed deterministic table from text ids to integer        *)
(* vectors (only the order of dot products matters to the ranking, so the  *)
(* scenario vectors [1,0],[0,1],[0.5,0.5] appear doubled).                 *)
(* Texts handed to the splitter are sequences of one-character strings.    *)
(***************************************************************************)
EXTENDS Integers, Sequences, FiniteSets, TLC

VARIABLES
    documents,    \* the notebook's `documents` list: chunk records [text, url]
    vectorstore,  \* the notebook's `vectorstore` array: one row per entry
    cache,        \* the file data/vectorstore.npy: [present, rows]
    stage,        \* position in the notebook's indexing cells
    result,       \* the outcome of the last IR.search call
    history,      \* ChatQA.history
    reply,        \* the outcome of the last ChatQA.__call__
    op,           \* the last ChatQA operation performed
    turns,        \* calls with history=True completed since the last reset
    chatbot,      \* the value of the demo's gr.Chatbot component
    splitIn,      \* the arguments of the last split_text call
    splitOut      \* the outcome of the last split_text call

vars == <<documents, vectorstore, cache, stage, result, history, reply, op,
          turns, chatbot, splitIn, splitOut>>

(***************************************************************************)
(* Bounds of the model.                                                    *)
(***************************************************************************)
MaxText == 4
MaxDocs == 3
MaxK == 4
MaxBuildDocs == 2
MaxChatDocs == 5
MaxHistDocs == 3
MaxHistory == 2
MaxQuestion == 3
MaxChatbot == 2
MaxLen == 5
MaxChunkSize == 4
MaxOverlap == 2

\* The default of IR.search's parameter k, which ChatQA.__call__ relies on.
DefaultK == 4

Min(a, b) == IF a < b THEN a ELSE b
Max(a, b) == IF a > b THEN a ELSE b

TextIds == 1..MaxText
Urls == {"u1", "u2", "u3"}

(***************************************************************************)
(* The embedding provider (SentenceTransformer.encode): deterministic,     *)
(* fixed output dimension.                                                 *)
(***************************************************************************)
EncodeTable ==
    << <<1, 1>>, <<2, 0>>, <<0, 2>>, <<3, 1>>, <<1, 4>>, <<2, 5>>,
       <<0, 0>>, <<1, 0>> >>

Encode(t) == EncodeTable[t]

EncodeAll(docs) == [i \in 1..Len(docs) |-> Encode(docs[i].text)]

(***************************************************************************)
(* The embedding cache cell.                                               *)
(***************************************************************************)
NoCache == [present |-> FALSE, rows |-> <<>>]

\* os.path.exists decides alone; a present file is loaded as it is.
LoadOrEncode(file, docs) ==
    IF file.present THEN file.rows ELSE EncodeAll(docs)

SaveCache(file, docs) ==
    IF file.present THEN file ELSE [present |-> TRUE, rows |-> EncodeAll(docs)]

(***************************************************************************)
(* IR.search                                                               *)
(***************************************************************************)
\* util.dot_score of the query embedding with one row.
Dot(a, b) == a[1] * b[1] + a[2] * b[2]

\* util.dot_score: the 1 x n matrix of scores, as its only row.
DotScore(qe, vs) == [i \in 1..Len(vs) |-> Dot(qe, vs[i])]

\* scores.squeeze() drops every axis of length 1: a 1 x 1 matrix becomes a
\* 0-dimensional tensor, any other 1 x n matrix a vector of length n.
SqueezedDim(scores) == IF Len(scores) = 1 THEN 0 ELSE 1

\* A faulty variant of Neg: the negation forgotten, so that the ranking is
\* by ascending score.
NegMutant(scores) == scores

\* (-scores)
Neg(scores) == [i \in 1..Len(scores) |-> 0 - scores[i]]

RECURSIVE ArgsortFrom(_, _)
ArgsortFrom(v, remaining) ==
    IF remaining = {} THEN {<<>>}
    ELSE UNION { { <<i>> \o s : s \in ArgsortFrom(v, remaining \ {i}) } :
                 i \in {j \in remaining : \A m \in remaining : v[j] <= v[m]} }

\* Tensor.argsort(): ascending, stable=False, so the relative order of equal
\* elements is not fixed: every ascending ordering is a possible outcome.
Argsort(v) == ArgsortFrom(v, 1..Len(v))

\* seq[:k]
Slice(s, k) ==
    IF k >= 0 THEN SubSeq(s, 1, Min(k, Len(s)))
    ELSE SubSeq(s, 1, Max(Len(s) + k, 0))

SearchHit(docs, scores, i) ==
    [i |-> i, text |-> docs[i].text, url |-> docs[i].url, score |-> scores[i]]

\* Every outcome IR.search(query, k) can have on the index (docs, vs).
SearchOutcomes(docs, vs, query, k) ==
    LET scores == DotScore(Encode(query), vs)
    IN  IF SqueezedDim(scores) = 0
        THEN \* slicing a 0-dimensional tensor raises IndexError
             {[status |-> "IndexError", out |-> <<>>]}
        ELSE { IF \E j \in 1..Len(topk) : topk[j] > Len(docs)
               THEN [status |-> "IndexError", out |-> <<>>]
               ELSE [status |-> "ok",
                     out |-> [j \in 1..Len(topk) |->
                                 SearchHit(docs, scores, topk[j])]] :
               topk \in {Slice(p, k) : p \in Argsort(Neg(scores))} }

NoResult ==
    [called |-> FALSE, query |-> 1, k |-> 0, status |-> "none", out |-> <<>>,
     encCalls |-> 0]

\* One call IR.search(query, k); the search reads the index and writes
\* nothing, so one call per behaviour shows all it can do.
Search(query, k) ==
    /\ ~result.called
    /\ \E r \in SearchOutcomes(documents, vectorstore, query, k) :
          result' = [called |-> TRUE, query |-> query, k |-> k,
                     status |-> r.status, out |-> r.out, encCalls |-> 1]
    /\ UNCHANGED <<documents, vectorstore, cache, stage, history, reply, op,
                   turns, chatbot, splitIn, splitOut>>

(***************************************************************************)
(* Values of the variables a specification does not use.                   *)
(***************************************************************************)
NoReply ==
    [status |-> "none", at |-> "none", llmCalls |-> 0, encCalls |-> 0,
     hist |-> FALSE, followed |-> FALSE, query |-> 1, docs |-> <<>>,
     answer |-> "none", citation |-> <<>>]

NoSplitIn == [text |-> <<>>, size |-> 1, overlap |-> 0, seps |-> <<>>]
NoSplitOut == [status |-> "none", chunks |-> <<>>]

Chunk(t, u) == [text |-> t, url |-> u]

(***************************************************************************)
(* SpecSearch: IR.search on every index of at most MaxDocs chunks whose    *)
(* rows are the embeddings of its chunks.                                  *)
(***************************************************************************)
InitSearch ==
    /\ documents \in UNION { [1..n -> {Chunk(t, "u1") : t \in TextIds}] :
                             n \in 0..MaxDocs }
    /\ vectorstore = EncodeAll(documents)
    /\ cache = [present |-> TRUE, rows |-> vectorstore]
    /\ stage = "built"
    /\ result = NoResult
    /\ history = <<>>
    /\ reply = NoReply
    /\ op = "init"
    /\ turns = 0
    /\ chatbot = <<>>
    /\ splitIn = NoSplitIn
    /\ splitOut = NoSplitOut

NextSearch == \E query \in TextIds, k \in (0 - MaxK)..MaxK : Search(query, k)

SpecSearch == InitSearch /\ [][NextSearch]_vars

(***************************************************************************)
(* SpecBuild: the notebook's indexing cells, run again and again over      *)
(* changing corpora while data/vectorstore.npy stays on disk.              *)
(***************************************************************************)
\* The Processing cells: `documents` is rebuilt from the corpus.
Process(docs) ==
    /\ documents' = docs
    /\ stage' = "processed"
    /\ UNCHANGED <<vectorstore, cache, result, history, reply, op, turns,
                   chatbot, splitIn, splitOut>>

\* The Embeddings cell.
BuildVectorstore ==
    /\ stage = "processed"
    /\ vectorstore' = LoadOrEncode(cache, documents)
    /\ cache' = SaveCache(cache, documents)
    /\ stage' = "built"
    /\ UNCHANGED <<documents, result, history, reply, op, turns, chatbot,
                   splitIn, splitOut>>

InitBuild ==
    /\ documents = <<>>
    /\ vectorstore = <<>>
    /\ cache = NoCache
    /\ stage = "start"
    /\ result = NoResult
    /\ history = <<>>
    /\ reply = NoReply
    /\ op = "init"
    /\ turns = 0
    /\ chatbot = <<>>
    /\ splitIn = NoSplitIn
    /\ splitOut = NoSplitOut

NextBuild ==
    \/ \E docs \in UNION { [1..n -> {Chunk(t, "u1") : t \in TextIds}] :
                           n \in 0..MaxBuildDocs } : Process(docs)
    \/ BuildVectorstore

SpecBuild == InitBuild /\ [][NextBuild]_vars

(***************************************************************************)
(* split_text (spec.md section 4.1; utils.split_text is not among the      *)
(* sources).  A text is a sequence of characters, a piece is a record      *)
(* [s, t]: its text t and the offset s of its first character in the       *)
(* document, a chunk is a record [text, start, hard, seed]: hard flags the *)
(* hard-cut fallback, seed is the number of characters the chunk's buffer  *)
(* was seeded with from the previous buffer.                               *)
(***************************************************************************)
Whitespace == {" ", "\n"}
Alphabet == {"a", " ", "\n"}

\* The notebook's separators, ["\n\n", "\n", " ", ""].
NotebookSeparators == << <<"\n", "\n">>, <<"\n">>, <<" ">>, <<>> >>

\* The document and the separators of the scenario "A. B. C.".
ScenarioText == <<"A", ".", " ", "B", ".", " ", "C", ".">>
ScenarioSeparators == << <<".", " ">> >>

SepAt(text, sep, p) ==
    /\ p + Len(sep) - 1 <= Len(text)
    /\ SubSeq(text, p, p + Len(sep) - 1) = sep

\* The pieces of text from position cur on, split at each occurrence of sep
\* found from position p on, left to right.
RECURSIVE PiecesFrom(_, _, _, _, _)
PiecesFrom(text, base, sep, cur, p) ==
    IF p + Len(sep) - 1 > Len(text)
    THEN << [s |-> base + cur - 1, t |-> SubSeq(text, cur, Len(text))] >>
    ELSE IF SepAt(text, sep, p)
         THEN << [s |-> base + cur - 1, t |-> SubSeq(text, cur, p - 1)] >>
              \o PiecesFrom(text, base, sep, p + Len(sep), p + Len(sep))
         ELSE PiecesFrom(text, base, sep, cur, p + 1)

\* Step 1: split text on sep; the empty separator splits into characters.
SplitOn(text, base, sep) ==
    IF sep = <<>>
    THEN [i \in 1..Len(text) |-> [s |-> base + i - 1, t |-> <<text[i]>>]]
    ELSE PiecesFrom(text, base, sep, 1, 1)

\* The pieces of a buffer joined by sep.
RECURSIVE Join(_, _)
Join(pieces, sep) ==
    IF pieces = <<>> THEN <<>>
    ELSE IF Len(pieces) = 1 THEN pieces[1].t
         ELSE pieces[1].t \o sep \o Join(Tail(pieces), sep)

\* A faulty variant of Overflows: a buffer of exactly chunk_size counts as
\* over it.
OverflowsMutant(buf, piece, sep, size) ==
    Len(Join(Append(buf, piece), sep)) >= size

\* Step 2: adding the next piece would push the buffer over chunk_size.
Overflows(buf, piece, sep, size) ==
    Len(Join(Append(buf, piece), sep)) > size

LastPieces(buf, m) == SubSeq(buf, Len(buf) - m + 1, Len(buf))

\* A faulty variant of Seed: the separators between the pieces are not
\* counted in the seed's length.
SeedMutant(buf, sep, overlap) ==
    LET fits == {m \in 0..Len(buf) :
                    Len(Join(LastPieces(buf, m), <<>>)) <= overlap}
    IN  LastPieces(buf, CHOOSE m \in fits : \A x \in fits : x <= m)

\* Step 3: the seed of a new buffer, the longest run of trailing pieces of
\* the previous buffer whose joined length is at most chunk_overlap.
Seed(buf, sep, overlap) ==
    LET fits == {m \in 0..Len(buf) :
                    m = 0 \/ Len(Join(LastPieces(buf, m), sep)) <= overlap}
    IN  LastPieces(buf, CHOOSE m \in fits : \A x \in fits : x <= m)

Emit(buf, sep, seedLen) ==
    [text |-> Join(buf, sep), start |-> buf[1].s, hard |-> FALSE,
     seed |-> seedLen]

\* Step 4, no separator left: the piece is emitted verbatim.
HardCut(piece) ==
    [text |-> piece.t, start |-> piece.s, hard |-> TRUE, seed |-> 0]

RECURSIVE SplitRec(_, _, _, _, _)
RECURSIVE Pack(_, _, _, _, _, _, _, _, _)

\* Steps 2 to 4 over pieces[i..]: buf is the running buffer, out the chunks
\* emitted so far, rest the separators after sep.
Pack(pieces, i, buf, seedLen, out, sep, rest, size, overlap) ==
    IF i > Len(pieces)
    THEN IF buf = <<>> THEN out ELSE Append(out, Emit(buf, sep, seedLen))
    ELSE LET piece == pieces[i]
             flushed == IF buf = <<>> THEN out
                        ELSE Append(out, Emit(buf, sep, seedLen))
         IN  IF Len(piece.t) > size
             THEN Pack(pieces, i + 1, <<>>, 0,
                       IF rest = <<>>
                       THEN Append(flushed, HardCut(piece))
                       ELSE flushed \o SplitRec(piece.t, piece.s, size,
                                                overlap, rest),
                       sep, rest, size, overlap)
             ELSE IF buf # <<>> /\ Overflows(buf, piece, sep, size)
                  THEN LET sd == Seed(buf, sep, overlap)
                       IN  Pack(pieces, i + 1, Append(sd, piece),
                                Len(Join(sd, sep)), flushed, sep, rest, size,
                                overlap)
                  ELSE Pack(pieces, i + 1, Append(buf, piece), seedLen, out,
                            sep, rest, size, overlap)

\* The cascade on text, whose first character is at offset base of the
\* document, with the separators seps (not empty).
SplitRec(text, base, size, overlap, seps) ==
    Pack(SplitOn(text, base, Head(seps)), 1, <<>>, 0, <<>>, Head(seps),
         Tail(seps), size, overlap)

IsBlank(t) == \A i \in 1..Len(t) : t[i] \in Whitespace

\* Step 5: empty and whitespace-only chunks are dropped.
RECURSIVE DropBlank(_)
DropBlank(cs) ==
    IF cs = <<>> THEN <<>>
    ELSE IF IsBlank(Head(cs).text) THEN DropBlank(Tail(cs))
         ELSE <<Head(cs)>> \o DropBlank(Tail(cs))

\* split(text, chunk_size, chunk_overlap, separators); chunk_size <= 0 is
\* rejected at entry.
SplitText(text, size, overlap, seps) ==
    IF size <= 0
    THEN [status |-> "InvalidConfiguration", chunks |-> <<>>]
    ELSE [status |-> "ok",
          chunks |-> DropBlank(SplitRec(text, 0, size, overlap, seps))]

\* One call split_text(text, chunk_size, chunk_overlap, separators) with the
\* arguments held in splitIn.
Split ==
    /\ splitOut.status = "none"
    /\ splitOut' = SplitText(splitIn.text, splitIn.size, splitIn.overlap,
                             splitIn.seps)
    /\ UNCHANGED <<documents, vectorstore, cache, stage, result, history,
                   reply, op, turns, chatbot, splitIn>>

(***************************************************************************)
(* SpecSplit: split_text on every text of at most MaxLen characters and on *)
(* the scenario document.                                                  *)
(***************************************************************************)
SplitTexts ==
    UNION { [1..n -> Alphabet] : n \in 0..MaxLen } \cup {ScenarioText}

SeparatorLists ==
    { NotebookSeparators, << <<" ">> >>, << <<" ">>, <<>> >>,
      << <<"\n">>, <<" ">> >>, ScenarioSeparators }

InitSplit ==
    /\ documents = <<>>
    /\ vectorstore = <<>>
    /\ cache = NoCache
    /\ stage = "start"
    /\ result = NoResult
    /\ history = <<>>
    /\ reply = NoReply
    /\ op = "init"
    /\ turns = 0
    /\ chatbot = <<>>
    /\ splitIn \in [text : SplitTexts, size : 0..MaxChunkSize,
                    overlap : 0..MaxOverlap, seps : SeparatorLists]
    /\ splitOut = NoSplitOut

NextSplit == Split

SpecSplit == InitSplit /\ [][NextSplit]_vars

(***************************************************************************)
(* ChatQA.  The generator (LLM.completion) is an external collaborator:    *)
(* what it returns and whether it fails are inputs of the call.  A prompt  *)
(* is the record of what the template is filled with, a citation line      *)
(* "n. url" the record [n, url].                                           *)
(***************************************************************************)
Answers == {"answer"}

\* question_template.format(context=..., question=query), the context being
\* the texts of the retrieved documents in ranked order.
Prompt(docs, query) ==
    [context |-> [j \in 1..Len(docs) |-> docs[j].text], question |-> query]

\* A faulty variant of Dedup: no url is dropped.
DedupMutant(s) == s

\* list(dict.fromkeys(urls)): each key once, at the place of its first
\* occurrence.
RECURSIVE Dedup(_)
Dedup(s) ==
    IF s = <<>> THEN <<>>
    ELSE LET front == Dedup(SubSeq(s, 1, Len(s) - 1))
             last == s[Len(s)]
         IN  IF \E i \in 1..Len(front) : front[i] = last
             THEN front
             ELSE Append(front, last)

\* [f"{i+1}. {url}" for i, url in enumerate(urls)]
Citation(urls) == [i \in 1..Len(urls) |-> [n |-> (i - 1) + 1, url |-> urls[i]]]

\* A faulty variant of NextHistory: the turn is appended before the answer
\* completion has returned.
NextHistoryMutant(h, hist, completed, entry) ==
    IF hist THEN Append(h, entry) ELSE h

\* A faulty variant of NextHistory: the turn of a completed call is appended
\* whatever the history argument.
NextHistoryUnguardedMutant(h, hist, completed, entry) ==
    IF completed THEN Append(h, entry) ELSE h

\* self.history after the answer completion: the turn is appended once the
\* completion has returned, and only with history=True.
NextHistory(h, hist, completed, entry) ==
    IF hist /\ completed THEN Append(h, entry) ELSE h

\* `history and len(self.history)`
FollowsUp(hist) == hist /\ Len(history) > 0

Raised(at, llmCalls, encCalls, hist, followed, query) ==
    [status |-> "raised", at |-> at, llmCalls |-> llmCalls,
     encCalls |-> encCalls, hist |-> hist, followed |-> followed,
     query |-> query, docs |-> <<>>, answer |-> "none", citation |-> <<>>]

Calls(b) == IF b THEN 1 ELSE 0

\* The questions put to ChatQA with history.
Questions == 1..MaxQuestion

\* What follow_up_query can return: any text when the generator is asked;
\* the question stands for the value never computed when it is not.
Rephrasings(question, hist) ==
    IF FollowsUp(hist) THEN Questions ELSE {question}

\* follow_up_query: the generator fails while rephrasing the question.
CallFailsInFollowUp(question, hist) ==
    /\ FollowsUp(hist)
    /\ reply' = Raised("follow_up", 1, 0, hist, TRUE, question)
    /\ UNCHANGED <<history, turns>>

\* self.ir.search(query): the embedding provider fails on the query.
CallFailsInEncode(query, hist) ==
    /\ reply' = Raised("embed", Calls(FollowsUp(hist)), 1, hist,
                       FollowsUp(hist), query)
    /\ UNCHANGED <<history, turns>>

\* self.ir.search(query) raises by itself.
CallFailsInSearch(query, hist) ==
    /\ \E r \in SearchOutcomes(documents, vectorstore, query, DefaultK) :
          r.status # "ok"
    /\ reply' = Raised("search", Calls(FollowsUp(hist)), 1, hist,
                       FollowsUp(hist), query)
    /\ UNCHANGED <<history, turns>>

\* The generator fails in the answer completion.
CallFailsInAnswer(query, hist) ==
    /\ \E r \in SearchOutcomes(documents, vectorstore, query, DefaultK) :
          /\ r.status = "ok"
          /\ history' = NextHistory(history, hist, FALSE,
                            [prompt |-> Prompt(r.out, query),
                             answer |-> "none"])
    /\ reply' = Raised("answer", Calls(FollowsUp(hist)) + 1, 1, hist,
                       FollowsUp(hist), query)
    /\ UNCHANGED turns

\* The call completes; answer is what the generator returns.
CallReturns(query, hist) ==
    \E r \in SearchOutcomes(documents, vectorstore, query, DefaultK),
       answer \in Answers :
        /\ r.status = "ok"
        /\ history' = NextHistory(history, hist, TRUE,
                          [prompt |-> Prompt(r.out, query),
                           answer |-> answer])
        /\ turns' = turns + Calls(hist)
        /\ reply' = [status |-> "ok", at |-> "none",
                     llmCalls |-> Calls(FollowsUp(hist)) + 1, encCalls |-> 1,
                     hist |-> hist, followed |-> FollowsUp(hist),
                     query |-> query,
                     docs |-> r.out, answer |-> answer,
                     citation |->
                         Citation(Dedup([j \in 1..Len(r.out) |->
                                            r.out[j].url]))]

\* ChatQA.__call__(question, history=hist); rephrased is what the generator
\* returns to follow_up_query when it is asked.
Call(question, hist, rephrased) ==
    /\ hist => Len(history) < MaxHistory
    /\ LET query == IF FollowsUp(hist) THEN rephrased ELSE question
       IN  \/ CallFailsInFollowUp(question, hist)
           \/ CallFailsInEncode(query, hist)
           \/ CallFailsInSearch(query, hist)
           \/ CallFailsInAnswer(query, hist)
           \/ CallReturns(query, hist)
    /\ op' = "call"
    /\ UNCHANGED <<documents, vectorstore, cache, stage, result, chatbot,
                   splitIn, splitOut>>

\* ChatQA.reset
Reset ==
    /\ history' = <<>>
    /\ turns' = 0
    /\ op' = "reset"
    /\ UNCHANGED <<documents, vectorstore, cache, stage, result, reply,
                   chatbot, splitIn, splitOut>>

\* "\n".join([answer, *citation]), the message ChatQA.__call__ returns.
BotMessage(r) == [answer |-> r.answer, citation |-> r.citation]

\* The demo's respond(question, chat_history), run on msg.submit with the
\* chatbot's value: chat(question) with the default history=False; when the
\* call returns, the pair (question, bot_message) is appended and the list
\* is the chatbot's new value; when it raises, the chatbot keeps its value.
Respond(question) ==
    /\ stage = "launched"
    /\ Len(chatbot) < MaxChatbot
    /\ LET hist == FALSE
       IN  \/ CallFailsInEncode(question, hist)
           \/ CallFailsInSearch(question, hist)
           \/ CallFailsInAnswer(question, hist)
           \/ CallReturns(question, hist)
    /\ chatbot' = IF reply'.status = "ok"
                  THEN Append(chatbot, <<question, BotMessage(reply')>>)
                  ELSE chatbot
    /\ op' = "respond"
    /\ UNCHANGED <<documents, vectorstore, cache, stage, result, splitIn,
                   splitOut>>

\* The demo's reset_chat, run on clear.click: chat.reset(), and the "" it
\* returns becomes the chatbot's value, which shows no message.
ResetChat ==
    /\ stage = "launched"
    /\ history' = <<>>
    /\ turns' = 0
    /\ chatbot' = <<>>
    /\ op' = "reset_chat"
    /\ UNCHANGED <<documents, vectorstore, cache, stage, result, reply,
                   splitIn, splitOut>>

(***************************************************************************)
(* Spec: ChatQA, called with and without history and reset, over an index  *)
(* of at most MaxHistDocs chunks built with no cache file on disk.  The    *)
(* chunks of one article follow each other in `documents` and share its    *)
(* url: here the first two chunks come from one article and the others     *)
(* from a second one.  The notebook makes two ChatQA objects: the one of   *)
(* the Chatbot cell, called from cells (stage "built"), and the one of the *)
(* Demo cell, called by the demo's handlers (stage "launched"); a          *)
(* behaviour follows one of them.                                          *)
(***************************************************************************)
ChatText(i) == ((i - 1) % Len(EncodeTable)) + 1

ChatInit(docs) ==
    /\ documents = docs
    /\ vectorstore = EncodeAll(docs)
    /\ cache = [present |-> TRUE, rows |-> vectorstore]
    /\ stage = "built"
    /\ result = NoResult
    /\ history = <<>>
    /\ reply = NoReply
    /\ op = "init"
    /\ turns = 0
    /\ chatbot = <<>>
    /\ splitIn = NoSplitIn
    /\ splitOut = NoSplitOut

\* The Demo cell: a second ChatQA over the same index, bound to `chat` inside
\* gr.Blocks, an empty chatbot, and demo.launch(); from then on the handlers
\* respond and reset_chat are what runs on it.
DemoInit(docs) ==
    /\ documents = docs
    /\ vectorstore = EncodeAll(docs)
    /\ cache = [present |-> TRUE, rows |-> vectorstore]
    /\ stage = "launched"
    /\ result = NoResult
    /\ history = <<>>
    /\ reply = NoReply
    /\ op = "init"
    /\ turns = 0
    /\ chatbot = <<>>
    /\ splitIn = NoSplitIn
    /\ splitOut = NoSplitOut

Init ==
    \E n \in 0..MaxHistDocs :
        LET docs == [i \in 1..n |->
                        Chunk(ChatText(i), IF i <= 2 THEN "u1" ELSE "u2")]
        IN  ChatInit(docs) \/ DemoInit(docs)

Next ==
    \/ /\ stage = "built"
       /\ \E question \in Questions, hist \in BOOLEAN :
             \E rephrased \in Rephrasings(question, hist) :
                 Call(question, hist, rephrased)
    \/ stage = "built" /\ Reset
    \/ \E question \in Questions : Respond(question)
    \/ ResetChat

Spec == Init /\ [][Next]_vars

(***************************************************************************)
(* SpecCite: ChatQA called without history, as the notebook's example cell *)
(* and its demo call it, over every assignment of urls to the chunks.      *)
(***************************************************************************)
InitCite ==
    \E n \in 0..MaxChatDocs :
        \E urls \in [1..n -> Urls] :
            ChatInit([i \in 1..n |-> Chunk(ChatText(i), urls[i])])

NextCite ==
    \E question \in TextIds : Call(question, FALSE, question)

SpecCite == InitCite /\ [][NextCite]_vars

(***************************************************************************)
(* Claims about IR.search (specification SpecSearch).                      *)
(***************************************************************************)
HitIndexes(out) == {out[j].i : j \in 1..Len(out)}

\* C1: for every index of n chunks (n = 0 and n = 1 included) and every
\* k > 0, IR.search returns exactly min(k, n) results, no index entry twice,
\* and every entry exactly once when k >= n; it never fails.
C1_SearchReturnsMinKN ==
    (result.called /\ result.k > 0) =>
        /\ result.status = "ok"
        /\ Len(result.out) = Min(result.k, Len(documents))
        /\ \A a, b \in 1..Len(result.out) :
              a # b => result.out[a].i # result.out[b].i
        /\ result.k >= Len(documents) =>
              HitIndexes(result.out) = 1..Len(documents)

\* C2: the results IR.search returns are in non-increasing order of score,
\* every returned score is the dot product of the query embedding with the
\* row stored at the chunk's own position, and no chunk left out of the
\* result scores strictly higher than a returned one.
C2_TopKByScore ==
    (result.called /\ result.status = "ok") =>
        LET out == result.out
            qe == Encode(result.query)
        IN  /\ \A a, b \in 1..Len(out) :
                  a < b => out[a].score >= out[b].score
            /\ \A a \in 1..Len(out) :
                  /\ out[a].i \in 1..Len(documents)
                  /\ out[a].score = Dot(qe, vectorstore[out[a].i])
                  /\ out[a].text = documents[out[a].i].text
            /\ \A j \in (1..Len(documents)) \ HitIndexes(out) :
                  \A a \in 1..Len(out) :
                      Dot(qe, vectorstore[j]) <= out[a].score

\* C2's case: a search with k > 0 that returns at least two results of
\* different scores and leaves out a chunk inserted before a returned one.
C2_Witness ==
    /\ result.called
    /\ result.status = "ok"
    /\ result.k > 0
    /\ Len(result.out) >= 2
    /\ result.out[1].score > result.out[2].score
    /\ \E j \in (1..Len(documents)) \ HitIndexes(result.out) :
          j < result.out[1].i

\* C3: ties are broken stably: of two chunks of equal score the one with the
\* lower insertion index is ranked first, and is the one kept when only one
\* of them fits in the top k.
C3_StableTies ==
    (result.called /\ result.status = "ok") =>
        LET out == result.out
            qe == Encode(result.query)
        IN  /\ \A a, b \in 1..Len(out) :
                  (a < b /\ out[a].score = out[b].score) =>
                      out[a].i < out[b].i
            /\ \A j \in (1..Len(documents)) \ HitIndexes(out) :
                  \A a \in 1..Len(out) :
                      Dot(qe, vectorstore[j]) = out[a].score => out[a].i < j

\* C8: a search with k <= 0 is rejected as InvalidConfiguration: it returns
\* no results and does not invoke the embedding provider.
C8_NonPositiveKRejected ==
    (result.called /\ result.k <= 0) =>
        /\ result.status = "InvalidConfiguration"
        /\ result.out = <<>>
        /\ result.encCalls = 0

(***************************************************************************)
(* Claims about split_text (specification SpecSplit).                      *)
(***************************************************************************)
ChunkTexts(cs) == [i \in 1..Len(cs) |-> cs[i].text]

IsScenario ==
    /\ splitIn.text = ScenarioText
    /\ splitIn.size = 4
    /\ splitIn.overlap = 0
    /\ splitIn.seps = ScenarioSeparators

C6_ScenarioAsStated ==
    (IsScenario /\ splitOut.status = "ok") =>
        ChunkTexts(splitOut.chunks) =
            << <<"A", ".">>, <<"B", ".">>, <<"C", ".">> >>

\* C6 amended: "A. B. C." with chunk_size 4, chunk_overlap 0 and the
\* separator ". " splits into exactly "A. B", "C.": the pieces are "A", "B"
\* and "C.", and "A. B" is 4 characters long, which is not over chunk_size.
C6_ScenarioPacked ==
    (IsScenario /\ splitOut.status = "ok") =>
        /\ ChunkTexts(splitOut.chunks) =
              << <<"A", ".", " ", "B">>, <<"C", ".">> >>
        /\ \A i \in 1..Len(splitOut.chunks) : ~splitOut.chunks[i].hard

\* C6's case: the scenario document has been split.
C6_Witness == IsScenario /\ splitOut.status = "ok"

\* The characters of the document that chunk c and the chunk d after it both
\* hold: the end of c's span past the start of d's.
Shared(c, d) == Max(0, c.start + Len(c.text) - d.start)

\* C7: every chunk is the span of the document at its offset, and two
\* adjacent chunks, neither of them a hard cut, share at most chunk_overlap
\* characters of it (none when chunk_overlap = 0); the shared characters are
\* the end of the earlier chunk and the start of the later one.
C7_OverlapBounded ==
    splitOut.status = "ok" =>
        LET cs == splitOut.chunks
        IN  /\ \A i \in 1..Len(cs) :
                  cs[i].text = SubSeq(splitIn.text, cs[i].start + 1,
                                      cs[i].start + Len(cs[i].text))
            /\ \A i \in 1..(Len(cs) - 1) :
                  (~cs[i].hard /\ ~cs[i + 1].hard) =>
                      /\ cs[i].start <= cs[i + 1].start
                      /\ Shared(cs[i], cs[i + 1]) <= splitIn.overlap
                      /\ Shared(cs[i], cs[i + 1]) <= Len(cs[i + 1].text)

\* C7's case: two adjacent chunks, neither a hard cut, that share text, the
\* later one seeded from the earlier one.
C7_Witness ==
    /\ splitOut.status = "ok"
    /\ \E i \in 1..(Len(splitOut.chunks) - 1) :
          /\ ~splitOut.chunks[i].hard
          /\ ~splitOut.chunks[i + 1].hard
          /\ splitOut.chunks[i + 1].seed > 0
          /\ splitOut.chunks[i].start < splitOut.chunks[i + 1].start
          /\ Shared(splitOut.chunks[i], splitOut.chunks[i + 1]) =
                splitIn.overlap

(***************************************************************************)
(* Claims about the embedding cache (specification SpecBuild).             *)
(***************************************************************************)
\* C4: after the build step, whatever the cache file held before, the
\* vectorstore has exactly one row per chunk of the current documents list
\* and row i is the embedding of documents[i].
C4_VectorstoreAligned ==
    stage = "built" =>
        /\ Len(vectorstore) = Len(documents)
        /\ \A i \in 1..Len(documents) :
              vectorstore[i] = Encode(documents[i].text)

(***************************************************************************)
(* Claims about ChatQA (specifications Spec and SpecCite).                 *)
(***************************************************************************)
\* C9: when the embedding provider or the generator fails during a ChatQA
\* call (in follow_up_query, in IR.search or in the answer completion), the
\* call raises without invoking the failed collaborator again, and leaves
\* ChatQA.history and the index (documents, vectorstore) as they were.
C9_FailureLeavesStateIntact ==
    [][ (/\ op' = "call"
         /\ reply'.status = "raised"
         /\ reply'.at \in {"follow_up", "embed", "answer"}) =>
            /\ history' = history
            /\ documents' = documents
            /\ vectorstore' = vectorstore
            /\ reply'.at = "follow_up" =>
                  (reply'.llmCalls = 1 /\ reply'.encCalls = 0)
            /\ reply'.at = "embed" =>
                  /\ reply'.encCalls = 1
                  /\ reply'.llmCalls = Calls(reply'.followed)
            /\ reply'.at = "answer" =>
                  /\ reply'.encCalls = 1
                  /\ reply'.llmCalls = Calls(reply'.followed) + 1 ]_vars

\* C9's case: a call with history=True on a non-empty history has rephrased
\* the question, searched, and failed in the answer completion.
C9_Witness ==
    /\ op = "call"
    /\ reply.status = "raised"
    /\ reply.at = "answer"
    /\ reply.followed
    /\ Len(history) > 0

FirstAt(s, x) == CHOOSE i \in 1..Len(s) : s[i] = x /\ \A j \in 1..(i - 1) : s[j] # x

\* C10: the citation list of a completed call holds each source url of the
\* retrieved chunks exactly once, in the order of the urls' first occurrence
\* in the ranked results, numbered from 1 on, and holds no url but those of
\* retrieved chunks.
C10_CitationsDedupedInOrder ==
    (op = "call" /\ reply.status = "ok") =>
        LET urls == [j \in 1..Len(reply.docs) |-> reply.docs[j].url]
            cites == reply.citation
        IN  /\ \A a \in 1..Len(cites) : cites[a].n = a
            /\ {cites[a].url : a \in 1..Len(cites)} =
                  {urls[j] : j \in 1..Len(urls)}
            /\ \A a, b \in 1..Len(cites) :
                  a # b => cites[a].url # cites[b].url
            /\ \A a, b \in 1..Len(cites) :
                  a < b => FirstAt(urls, cites[a].url) < FirstAt(urls, cites[b].url)
            /\ \A j \in 1..Len(urls) :
                  /\ reply.docs[j].i \in 1..Len(documents)
                  /\ urls[j] = documents[reply.docs[j].i].url

\* C10's case: a completed call that retrieved DefaultK chunks of a larger
\* index, two of them not next to each other in the ranking sharing a url,
\* ranked against insertion order, and left out a chunk whose url no
\* retrieved chunk has.
C10_Witness ==
    /\ op = "call"
    /\ reply.status = "ok"
    /\ Len(reply.docs) = DefaultK
    /\ Len(documents) > DefaultK
    /\ Len(reply.citation) = 2
    /\ reply.docs[1].url = reply.docs[3].url
    /\ reply.docs[1].url # reply.docs[2].url
    /\ reply.docs[1].i > reply.docs[2].i
    /\ \E j \in 1..Len(documents) :
          \A a \in 1..Len(reply.docs) : documents[j].url # reply.docs[a].url

\* A step that ran ChatQA.__call__, from a cell or from the demo's respond.
IsCallStep == op' \in {"call", "respond"}

\* A step that ran ChatQA.reset, from a cell or from the demo's reset_chat.
IsResetStep == op' \in {"reset", "reset_chat"}

\* C11: after any sequence of ChatQA calls and resets, the length of
\* ChatQA.history is the number of calls with history=True that completed
\* since the last reset (or since construction); step by step, a call with
\* history=False leaves history as it was, a completed call with
\* history=True appends exactly one entry, a call that raises appends none,
\* reset empties history, and the question is rephrased through
\* follow_up_query exactly when history=True and history was non-empty at
\* the start of the call; in the demo, whose respond calls with
\* history=False, history is empty in every reachable state.
C11_HistoryCountsCompletedTurns ==
    /\ [](Len(history) = turns)
    /\ [](stage = "launched" => history = <<>>)
    /\ [][ /\ (IsCallStep /\ ~reply'.hist) => history' = history
           /\ (IsCallStep /\ reply'.hist /\ reply'.status = "ok") =>
                 /\ Len(history') = Len(history) + 1
                 /\ SubSeq(history', 1, Len(history)) = history
           /\ (IsCallStep /\ reply'.status = "raised") => history' = history
           /\ IsResetStep => history' = <<>>
           /\ IsCallStep =>
                 (reply'.followed <=> (reply'.hist /\ Len(history) > 0))
           /\ op' = "respond" => ~reply'.hist ]_vars

\* C11's case: MaxHistory calls with history=True have completed since
\* construction or the last reset, the last one rephrased through
\* follow_up_query, and history holds their turns.
C11_Witness ==
    /\ op = "call"
    /\ reply.status = "ok"
    /\ reply.hist
    /\ reply.followed
    /\ turns = MaxHistory
    /\ Len(history) = MaxHistory

====
